---------------------------- MODULE Spec2Model ----------------------------
(***************************************************************************)
(* Model of modules/experimental-layers/src/gpu-grid-layer/                *)
(* gpu-grid-utils.js: the scan of a point set (_parseData), the conversion *)
(* of a cell size in meters to degrees (_getGridOffset and below), the     *)
(* alignment of the grid origin (alignToCellBoundary,                      *)
(* _getGPUAggregationParams) and the call of the aggregation engine        *)
(* (pointToDensityGridData).                                               *)
(*                                                                         *)
(* Numbers.  A JavaScript number is modelled as a record [t, v]: t is      *)
(* "fin" for a finite number, "pinf"/"ninf" for +/-Infinity and "nan" for  *)
(* NaN; v is the value of a finite number and 0 otherwise.  Degrees are    *)
(* counted in units of 1/Resolution degree, so that sums, differences,     *)
(* comparisons, floor(a / b), ceil(a / b) and integer multiples are exact; *)
(* the two places where the code leaves the lattice (the multiplication by *)
(* 180 / PI and the division by Math.cos) round to it, as the code rounds  *)
(* to a double.  Signed zeros are not distinguished (-0 == 0 and -0 < 0 is *)
(* false in the code as well).                                             *)
(***************************************************************************)
EXTENDS Integers, Sequences, FiniteSets, TLC

\* ------------------------------------------------------------------------
\* Bounds of the model
\* ------------------------------------------------------------------------

\* Units per degree.
Resolution == 100

\* Longest point collection handed to pointToDensityGridData.
MaxPoints == 2

\* alignToCellBoundary alone: inValue ranges over -MaxAbsValue..MaxAbsValue
\* and cellSize over 1..MaxCellSize (lattice units).
MaxAbsValue == 12

MaxCellSize == 5

\* ------------------------------------------------------------------------
\* JavaScript numbers
\* ------------------------------------------------------------------------

Fin(n) == [t |-> "fin", v |-> n]

Infinity == [t |-> "pinf", v |-> 0]

NegInfinity == [t |-> "ninf", v |-> 0]

NaN == [t |-> "nan", v |-> 0]

\* Number.isFinite
IsFinite(a) == a.t = "fin"

\* -1, 0 or 1 for a number that is not NaN
Sgn(a) ==
  CASE a.t = "pinf" -> 1
    [] a.t = "ninf" -> -1
    [] OTHER -> IF a.v > 0 THEN 1 ELSE IF a.v < 0 THEN -1 ELSE 0

\* the infinity of sign s (s is 1 or -1)
InfOf(s) == IF s > 0 THEN Infinity ELSE NegInfinity

\* unary minus
Neg(a) ==
  CASE a.t = "fin" -> Fin(0 - a.v)
    [] a.t = "pinf" -> NegInfinity
    [] a.t = "ninf" -> Infinity
    [] OTHER -> NaN

\* a + b
Add(a, b) ==
  CASE a.t = "nan" \/ b.t = "nan" -> NaN
    [] a.t = "fin" /\ b.t = "fin" -> Fin(a.v + b.v)
    [] a.t = "fin" -> b
    [] b.t = "fin" -> a
    [] a.t = b.t -> a
    [] OTHER -> NaN

\* a - b
Sub(a, b) == Add(a, Neg(b))

\* a * b
Mul(a, b) ==
  CASE a.t = "nan" \/ b.t = "nan" -> NaN
    [] a.t = "fin" /\ b.t = "fin" -> Fin(a.v * b.v)
    [] Sgn(a) = 0 \/ Sgn(b) = 0 -> NaN
    [] OTHER -> InfOf(Sgn(a) * Sgn(b))

\* a < b
Lt(a, b) ==
  CASE a.t = "nan" \/ b.t = "nan" -> FALSE
    [] a.t = "fin" /\ b.t = "fin" -> a.v < b.v
    [] a.t = "ninf" -> b.t # "ninf"
    [] b.t = "pinf" -> a.t # "pinf"
    [] OTHER -> FALSE

\* a > b
Gt(a, b) == Lt(b, a)

\* a <= b
Le(a, b) == a.t # "nan" /\ b.t # "nan" /\ ~Lt(b, a)

\* Math.abs
Abs(a) == IF a.t = "nan" THEN NaN ELSE IF Sgn(a) < 0 THEN Neg(a) ELSE a

\* floor of the quotient of two integers, d # 0
IntFloorDiv(n, d) == IF d > 0 THEN n \div d ELSE (0 - n) \div (0 - d)

\* Math.floor(a / b)
FloorDiv(a, b) ==
  CASE a.t = "nan" \/ b.t = "nan" -> NaN
    [] a.t = "fin" /\ b.t = "fin" ->
         IF b.v # 0 THEN Fin(IntFloorDiv(a.v, b.v))
         ELSE IF a.v = 0 THEN NaN ELSE InfOf(Sgn(a))
    [] a.t = "fin" -> Fin(0)
    [] b.t = "fin" -> InfOf(IF Sgn(b) < 0 THEN 0 - Sgn(a) ELSE Sgn(a))
    [] OTHER -> NaN

\* Math.ceil(a / b)
CeilDiv(a, b) == Neg(FloorDiv(Neg(a), b))

\* a / 2, rounded to the lattice
Half(a) == IF a.t = "fin" THEN Fin(IntFloorDiv(a.v, 2)) ELSE a


\* round(n / d) for integers n >= 0 and d > 0
RoundDiv(n, d) == (2 * n + d) \div (2 * d)

\* ------------------------------------------------------------------------
\* Cell size: meters to degrees
\* ------------------------------------------------------------------------

R_EARTH == 6378000

\* Math.PI as a fraction <<numerator, denominator>>
PI == <<355, 113>>

\* (d / R_EARTH) * (180 / Math.PI) for a finite d >= 0 in meters, in lattice
\* units: d / R_EARTH is kept to five decimal places.
DegreesOfMeters(d) ==
  RoundDiv(((d * 100000) \div R_EARTH) * 180 * PI[2] * Resolution, PI[1] * 100000)

\* Math.cos((lat * Math.PI) / 180) in thousandths, for a latitude of
\* -90..90 degrees in lattice units (Bhaskara's rational approximation of the
\* cosine).  Math.cos(Math.PI / 2) is a positive double (6.1e-17), so the
\* result is positive at the poles too.
CosMilli(lat) ==
  LET full == 32400 * Resolution * Resolution
      c == (full - 4 * lat * lat) \div ((full + lat * lat) \div 1000)
  IN  IF c < 1 THEN 1 ELSE c

_calculateLatOffset(dy) ==
  IF IsFinite(dy) THEN Fin(DegreesOfMeters(dy.v)) ELSE dy

_calculateLonOffset(lat, dx) ==
  IF ~IsFinite(lat) \/ dx.t = "nan" THEN NaN
  ELSE IF ~IsFinite(dx) THEN dx
  ELSE Fin(RoundDiv(DegreesOfMeters(dx.v) * 1000, CosMilli(lat.v)))

_calculateGridLatLonOffset(cellSize, latitude) ==
  [yOffset |-> _calculateLatOffset(cellSize),
   xOffset |-> _calculateLonOffset(latitude, cellSize)]

_getGridOffset(gridData, cellSize) ==
  LET centerLat == Half(Add(gridData.latMin, gridData.latMax))
  IN  _calculateGridLatLonOffset(cellSize, centerLat)

\* ------------------------------------------------------------------------
\* Grid alignment
\* ------------------------------------------------------------------------

\* alignToCellBoundary without the sign re-applied (return value)
alignToCellBoundaryUnsigned(inValue, cellSize) ==
  LET sign == IF Lt(inValue, Fin(0)) THEN -1 ELSE 1
      shifted == IF sign < 0 THEN Add(Abs(inValue), cellSize) ELSE Abs(inValue)
  IN  Mul(FloorDiv(shifted, cellSize), cellSize)

\* alignToCellBoundary with Math.ceil for Math.floor
alignToCellBoundaryCeil(inValue, cellSize) ==
  LET sign == IF Lt(inValue, Fin(0)) THEN -1 ELSE 1
      shifted == IF sign < 0 THEN Add(Abs(inValue), cellSize) ELSE Abs(inValue)
      value == Mul(CeilDiv(shifted, cellSize), cellSize)
  IN  Mul(value, Fin(sign))

alignToCellBoundary(inValue, cellSize) ==
  LET sign == IF Lt(inValue, Fin(0)) THEN -1 ELSE 1
      shifted == IF sign < 0 THEN Add(Abs(inValue), cellSize) ELSE Abs(inValue)
      value == Mul(FloorDiv(shifted, cellSize), cellSize)
  IN  Mul(value, Fin(sign))

\* 180 and 90 degrees, the shifts to positive space
LngShift == Fin(180 * Resolution)

LatShift == Fin(90 * Resolution)

\* new Matrix4().translate([x, y, z]): the translation of the identity
Translate(x, y, z) == [tx |-> x, ty |-> y, tz |-> z]

\* _getGPUAggregationParams aligning the minimum where it lies, without the
\* shift to positive space
_getGPUAggregationParamsUnshifted(gridData, gridOffset) ==
  LET originY == alignToCellBoundary(gridData.latMin, gridOffset.yOffset)
      originX == alignToCellBoundary(gridData.lngMin, gridOffset.xOffset)
  IN  [positions |-> gridData.positions,
       positions64xyLow |-> gridData.positions64xyLow,
       weights |-> gridData.weights,
       cellSize |-> <<gridOffset.xOffset, gridOffset.yOffset>>,
       gridOrigin |-> <<originX, originY>>,
       width |-> Add(Sub(gridData.lngMax, gridData.lngMin), gridOffset.xOffset),
       height |-> Add(Sub(gridData.latMax, gridData.latMin), gridOffset.yOffset),
       gridTransformMatrix |->
         Translate(Mul(Fin(-1), originX), Mul(Fin(-1), originY), Fin(0)),
       gridOffset |-> gridOffset]

\* _getGPUAggregationParams with width and height the bare spans, without
\* the cell of padding
_getGPUAggregationParamsUnpadded(gridData, gridOffset) ==
  LET originY ==
        Sub(alignToCellBoundary(Add(gridData.latMin, LatShift), gridOffset.yOffset),
            LatShift)
      originX ==
        Sub(alignToCellBoundary(Add(gridData.lngMin, LngShift), gridOffset.xOffset),
            LngShift)
  IN  [positions |-> gridData.positions,
       positions64xyLow |-> gridData.positions64xyLow,
       weights |-> gridData.weights,
       cellSize |-> <<gridOffset.xOffset, gridOffset.yOffset>>,
       gridOrigin |-> <<originX, originY>>,
       width |-> Sub(gridData.lngMax, gridData.lngMin),
       height |-> Sub(gridData.latMax, gridData.latMin),
       gridTransformMatrix |->
         Translate(Mul(Fin(-1), originX), Mul(Fin(-1), originY), Fin(0)),
       gridOffset |-> gridOffset]

_getGPUAggregationParams(gridData, gridOffset) ==
  LET originY ==
        Sub(alignToCellBoundary(Add(gridData.latMin, LatShift), gridOffset.yOffset),
            LatShift)
      originX ==
        Sub(alignToCellBoundary(Add(gridData.lngMin, LngShift), gridOffset.xOffset),
            LngShift)
  IN  [positions |-> gridData.positions,
       positions64xyLow |-> gridData.positions64xyLow,
       weights |-> gridData.weights,
       cellSize |-> <<gridOffset.xOffset, gridOffset.yOffset>>,
       gridOrigin |-> <<originX, originY>>,
       width |-> Add(Sub(gridData.lngMax, gridData.lngMin), gridOffset.xOffset),
       height |-> Add(Sub(gridData.latMax, gridData.latMin), gridOffset.yOffset),
       gridTransformMatrix |->
         Translate(Mul(Fin(-1), originX), Mul(Fin(-1), originY), Fin(0)),
       gridOffset |-> gridOffset]

\* ------------------------------------------------------------------------
\* Inputs
\* ------------------------------------------------------------------------

\* A point of the collection is an opaque record; the accessor reads its
\* position, <<longitude, latitude>>.
Point(lng, lat) == [position |-> <<lng, lat>>]

getPosition(d) == d.position

\* Points with both coordinates finite, in degrees -180..180 and -90..90 (the
\* range the code aligns in, "lng:[0 360], lat:[0 180]" after the shift):
\* both hemispheres, the western and southern edges, coordinates on and off
\* the cell boundaries.
FinitePoints ==
  { Point(Fin(0), Fin(0)),
    Point(Fin(9), Fin(9)),
    Point(Fin(-9), Fin(-9)),
    Point(Fin(5), Fin(4)),
    Point(Fin(-180 * Resolution), Fin(-60 * Resolution)),
    Point(Fin(-180 * Resolution + 18), Fin(-60 * Resolution + 13)),
    Point(Fin(180 * Resolution), Fin(90 * Resolution)),
    Point(Fin(-120 * Resolution - 7), Fin(-90 * Resolution)) }

\* Points with a coordinate that is NaN or infinite; their finite coordinates
\* lie outside the range of the finite points' coordinates.
NonFinitePoints ==
  { Point(NaN, Fin(0)),
    Point(Fin(-180 * Resolution - 1), Infinity),
    Point(Fin(180 * Resolution + 1), NaN),
    Point(NegInfinity, Fin(90 * Resolution + 1)),
    Point(Infinity, Fin(-90 * Resolution - 1)),
    Point(NaN, NegInfinity) }

Points == FinitePoints \cup NonFinitePoints

\* sequences over S of length 0..n
SeqsUpTo(S, n) == UNION { [1..k -> S] : k \in 0..n }

\* cellSizeMeters: positive
CellSizes == { 8000, 10000, 20000 }

\* The flags of a call: gpuAggregation, and fp64 when the caller passes it.
Flags ==
  [gpuAggregation : BOOLEAN] \cup [gpuAggregation : BOOLEAN, fp64 : BOOLEAN]

\* What gpuGridAggregator.run may return: opaque buffer handles.
AggregatorResults ==
  { [countsBuffer |-> "counts0", maxCountBuffer |-> "max0"],
    [countsBuffer |-> "counts1", maxCountBuffer |-> "max1"] }

\* ------------------------------------------------------------------------
\* _parseData
\* ------------------------------------------------------------------------

\* fp64LowPart(x) = x - Math.fround(x) (luma.gl): the part of x a single
\* precision float drops; here a float keeps the multiples of 4 units.
fp64LowPart(x) == Sub(x, IF IsFinite(x) THEN Fin(IntFloorDiv(x.v, 4) * 4) ELSE x)

\* the locals of _parseData with the bounds started at 0
ParseStartZero ==
  [positions |-> <<>>, positions64xyLow |-> <<>>, weights |-> <<>>,
   latMin |-> Fin(0), latMax |-> Fin(0), lngMin |-> Fin(0), lngMax |-> Fin(0)]

\* The locals of _parseData before the loop.
ParseStart ==
  [positions |-> <<>>, positions64xyLow |-> <<>>, weights |-> <<>>,
   latMin |-> Infinity, latMax |-> NegInfinity,
   lngMin |-> Infinity, lngMax |-> NegInfinity]

\* the loop body with the pushes moved inside the finiteness test
ParseIterationSkipping(s, d) ==
  LET pLng == getPosition(d)[1]
      pLat == getPosition(d)[2]
      both == IsFinite(pLat) /\ IsFinite(pLng)
  IN  [positions |-> IF both THEN s.positions \o <<pLng, pLat>> ELSE s.positions,
       positions64xyLow |->
         IF both THEN s.positions64xyLow \o <<fp64LowPart(pLng), fp64LowPart(pLat)>>
         ELSE s.positions64xyLow,
       weights |-> IF both THEN Append(s.weights, Fin(1)) ELSE s.weights,
       latMin |-> IF both /\ Lt(pLat, s.latMin) THEN pLat ELSE s.latMin,
       latMax |-> IF both /\ Gt(pLat, s.latMax) THEN pLat ELSE s.latMax,
       lngMin |-> IF both /\ Lt(pLng, s.lngMin) THEN pLng ELSE s.lngMin,
       lngMax |-> IF both /\ Gt(pLng, s.lngMax) THEN pLng ELSE s.lngMax]

\* the loop body with || for && in the finiteness test
ParseIterationEither(s, d) ==
  LET pLng == getPosition(d)[1]
      pLat == getPosition(d)[2]
      either == IsFinite(pLat) \/ IsFinite(pLng)
  IN  [positions |-> s.positions \o <<pLng, pLat>>,
       positions64xyLow |->
         s.positions64xyLow \o <<fp64LowPart(pLng), fp64LowPart(pLat)>>,
       weights |-> Append(s.weights, Fin(1)),
       latMin |-> IF either /\ Lt(pLat, s.latMin) THEN pLat ELSE s.latMin,
       latMax |-> IF either /\ Gt(pLat, s.latMax) THEN pLat ELSE s.latMax,
       lngMin |-> IF either /\ Lt(pLng, s.lngMin) THEN pLng ELSE s.lngMin,
       lngMax |-> IF either /\ Gt(pLng, s.lngMax) THEN pLng ELSE s.lngMax]

\* One iteration of the loop of _parseData, on point d.
ParseIteration(s, d) ==
  LET pLng == getPosition(d)[1]
      pLat == getPosition(d)[2]
      both == IsFinite(pLat) /\ IsFinite(pLng)
  IN  [positions |-> s.positions \o <<pLng, pLat>>,
       positions64xyLow |->
         s.positions64xyLow \o <<fp64LowPart(pLng), fp64LowPart(pLat)>>,
       weights |-> Append(s.weights, Fin(1)),
       latMin |-> IF both /\ Lt(pLat, s.latMin) THEN pLat ELSE s.latMin,
       latMax |-> IF both /\ Gt(pLat, s.latMax) THEN pLat ELSE s.latMax,
       lngMin |-> IF both /\ Lt(pLng, s.lngMin) THEN pLng ELSE s.lngMin,
       lngMax |-> IF both /\ Gt(pLng, s.lngMax) THEN pLng ELSE s.lngMax]

\* ------------------------------------------------------------------------
\* pointToDensityGridData
\* ------------------------------------------------------------------------

VARIABLES
  pc,              \* where the call is
  args,            \* the arguments of the call: data, cellSizeMeters, flags
  p,               \* _parseData: the loop index
  parsed,          \* _parseData: positions, positions64xyLow, weights, bounds
  gridData,        \* pointToDensityGridData: the result of _parseData
  gridOffset,      \* the result of _getGridOffset
  opts,            \* the result of _getGPUAggregationParams
  runCalls,        \* the requests gpuGridAggregator.run has received
  aggregatedData,  \* what gpuGridAggregator.run returned
  result,          \* what pointToDensityGridData returned
  inValue1,        \* alignToCellBoundary alone: a value,
  inValue2,        \*   a second value,
  cellSize,        \*   the cell size,
  aligned1,        \*   alignToCellBoundary(inValue1, cellSize),
  aligned2,        \*   alignToCellBoundary(inValue2, cellSize),
  realigned        \*   alignToCellBoundary(aligned1, cellSize)

callVars ==
  <<args, p, parsed, gridData, gridOffset, opts, runCalls, aggregatedData, result>>

alignVars == <<inValue1, inValue2, cellSize, aligned1, aligned2, realigned>>

vars == <<pc, callVars, alignVars>>

\* a value not yet computed
Undefined == [t |-> "undefined", v |-> 0]

\* the caller's fp64, false when the caller passes none (fp64 = false)
Fp64Of(flags) == IF "fp64" \in DOMAIN flags THEN flags.fp64 ELSE FALSE

\* the request with useGPU fixed to true instead of the caller's flag
RunRequestAlwaysGPU(o, flags) ==
  [positions |-> o.positions,
   positions64xyLow |-> o.positions64xyLow,
   weights |-> o.weights,
   cellSize |-> o.cellSize,
   width |-> o.width,
   height |-> o.height,
   gridTransformMatrix |-> o.gridTransformMatrix,
   useGPU |-> TRUE,
   fp64 |-> Fp64Of(flags)]

\* the request pointToDensityGridData hands to gpuGridAggregator.run
RunRequest(o, flags) ==
  [positions |-> o.positions,
   positions64xyLow |-> o.positions64xyLow,
   weights |-> o.weights,
   cellSize |-> o.cellSize,
   width |-> o.width,
   height |-> o.height,
   gridTransformMatrix |-> o.gridTransformMatrix,
   useGPU |-> flags.gpuAggregation,
   fp64 |-> Fp64Of(flags)]

\* what pointToDensityGridData returns
GridResult(o, aggregated) ==
  [countsBuffer |-> aggregated.countsBuffer,
   maxCountBuffer |-> aggregated.maxCountBuffer,
   gridSize |-> <<CeilDiv(o.width, o.cellSize[1]), CeilDiv(o.height, o.cellSize[2])>>,
   gridOrigin |-> o.gridOrigin,
   gridOffset |-> <<o.gridOffset.xOffset, o.gridOffset.yOffset>>]

AlignIdle ==
  /\ inValue1 = Undefined
  /\ inValue2 = Undefined
  /\ cellSize = Undefined
  /\ aligned1 = Undefined
  /\ aligned2 = Undefined
  /\ realigned = Undefined

Init ==
  /\ pc = "_parseData"
  /\ args \in [data : SeqsUpTo(Points, MaxPoints),
               cellSizeMeters : CellSizes,
               flags : Flags]
  /\ p = 0
  /\ parsed = ParseStart
  /\ gridData = Undefined
  /\ gridOffset = Undefined
  /\ opts = Undefined
  /\ runCalls = <<>>
  /\ aggregatedData = Undefined
  /\ result = Undefined
  /\ AlignIdle

\* for (let p = 0; p < data.length; p++) { ... }
ParseLoop ==
  /\ pc = "_parseData"
  /\ p < Len(args.data)
  /\ parsed' = ParseIteration(parsed, args.data[p + 1])
  /\ p' = p + 1
  /\ UNCHANGED <<pc, args, gridData, gridOffset, opts, runCalls, aggregatedData,
                 result, alignVars>>

\* the loop ends; const gridData = _parseData(data, getPosition)
ParseReturn ==
  /\ pc = "_parseData"
  /\ p >= Len(args.data)
  /\ gridData' = parsed
  /\ pc' = "_getGridOffset"
  /\ UNCHANGED <<args, p, parsed, gridOffset, opts, runCalls, aggregatedData,
                 result, alignVars>>

\* const gridOffset = _getGridOffset(gridData, cellSizeMeters)
GetGridOffset ==
  /\ pc = "_getGridOffset"
  /\ gridOffset' = _getGridOffset(gridData, Fin(args.cellSizeMeters))
  /\ pc' = "_getGPUAggregationParams"
  /\ UNCHANGED <<args, p, parsed, gridData, opts, runCalls, aggregatedData,
                 result, alignVars>>

\* const opts = _getGPUAggregationParams(gridData, gridOffset)
GetGPUAggregationParams ==
  /\ pc = "_getGPUAggregationParams"
  /\ opts' = _getGPUAggregationParams(gridData, gridOffset)
  /\ pc' = "run"
  /\ UNCHANGED <<args, p, parsed, gridData, gridOffset, runCalls, aggregatedData,
                 result, alignVars>>

\* const aggregatedData = gpuGridAggregator.run({...})
RunAggregator ==
  /\ pc = "run"
  /\ runCalls' = Append(runCalls, RunRequest(opts, args.flags))
  /\ aggregatedData' \in AggregatorResults
  /\ pc' = "return"
  /\ UNCHANGED <<args, p, parsed, gridData, gridOffset, opts, result, alignVars>>

\* return {countsBuffer, maxCountBuffer, gridSize, gridOrigin, gridOffset}
Return ==
  /\ pc = "return"
  /\ result' = GridResult(opts, aggregatedData)
  /\ pc' = "done"
  /\ UNCHANGED <<args, p, parsed, gridData, gridOffset, opts, runCalls,
                 aggregatedData, alignVars>>

Next ==
  \/ ParseLoop
  \/ ParseReturn
  \/ GetGridOffset
  \/ GetGPUAggregationParams
  \/ RunAggregator
  \/ Return

Spec == Init /\ [][Next]_vars

\* ------------------------------------------------------------------------
\* alignToCellBoundary alone
\* ------------------------------------------------------------------------

CallIdle ==
  /\ args = Undefined
  /\ p = 0
  /\ parsed = Undefined
  /\ gridData = Undefined
  /\ gridOffset = Undefined
  /\ opts = Undefined
  /\ runCalls = <<>>
  /\ aggregatedData = Undefined
  /\ result = Undefined

\* finite values of either sign and zero, positive cell sizes
AlignValues == { Fin(n) : n \in (0 - MaxAbsValue)..MaxAbsValue }

AlignCellSizes == { Fin(n) : n \in 1..MaxCellSize }

InitAlign ==
  /\ pc = "align"
  /\ inValue1 \in AlignValues
  /\ inValue2 \in AlignValues
  /\ cellSize \in AlignCellSizes
  /\ aligned1 = Undefined
  /\ aligned2 = Undefined
  /\ realigned = Undefined
  /\ CallIdle

\* alignToCellBoundary on each of the two values
Align ==
  /\ pc = "align"
  /\ aligned1' = alignToCellBoundary(inValue1, cellSize)
  /\ aligned2' = alignToCellBoundary(inValue2, cellSize)
  /\ pc' = "realign"
  /\ UNCHANGED <<inValue1, inValue2, cellSize, realigned, callVars>>

\* alignToCellBoundary on its own result
Realign ==
  /\ pc = "realign"
  /\ realigned' = alignToCellBoundary(aligned1, cellSize)
  /\ pc' = "aligned"
  /\ UNCHANGED <<inValue1, inValue2, cellSize, aligned1, aligned2, callVars>>

NextAlign ==
  \/ Align
  \/ Realign

SpecAlign == InitAlign /\ [][NextAlign]_vars

\* ------------------------------------------------------------------------
\* Properties: alignToCellBoundary (checked under SpecAlign)
\* ------------------------------------------------------------------------

\* C1: for every finite v and positive cellSize, a = alignToCellBoundary(v,
\* cellSize) satisfies a <= v and v < a + cellSize.
C1_AlignBracketsValue ==
  pc # "align" =>
    /\ Le(aligned1, inValue1)
    /\ Lt(inValue1, Add(aligned1, cellSize))

\* C2: alignToCellBoundary is idempotent: aligning an aligned value returns
\* it unchanged.
C2_AlignIdempotent == pc = "aligned" => realigned = aligned1

\* C3: alignToCellBoundary is monotonic: v1 <= v2 implies
\* alignToCellBoundary(v1, c) <= alignToCellBoundary(v2, c).
C3_AlignMonotonic ==
  (pc # "align" /\ Le(inValue1, inValue2)) => Le(aligned1, aligned2)

\* C3's case: a negative v1 below a non-negative v2, both aligned, to
\* different cells.
C3_Witness ==
  /\ pc = "aligned"
  /\ Lt(inValue1, Fin(0))
  /\ Le(Fin(0), inValue2)
  /\ Lt(aligned1, aligned2)

\* ------------------------------------------------------------------------
\* Properties: pointToDensityGridData (checked under Spec)
\* ------------------------------------------------------------------------

\* point i of the collection has both coordinates finite
FiniteAt(i) ==
  /\ IsFinite(getPosition(args.data[i])[1])
  /\ IsFinite(getPosition(args.data[i])[2])

FiniteIndexes == { i \in 1..Len(args.data) : FiniteAt(i) }

\* the longitudes and the latitudes (integers) of the fully finite points
FiniteLngs == { getPosition(args.data[i])[1].v : i \in FiniteIndexes }

FiniteLats == { getPosition(args.data[i])[2].v : i \in FiniteIndexes }

MinOf(S) == CHOOSE x \in S : \A y \in S : x <= y

MaxOf(S) == CHOOSE x \in S : \A y \in S : y <= x

\* _getGPUAggregationParams has returned
Placed == pc \in {"run", "return", "done"}

\* n is an integer multiple of the positive integer d
MultipleOf(n, d) == n % d = 0

\* the greatest multiple of the positive integer d that is <= n
FloorMultiple(n, d) == (n \div d) * d

\* C4: with a fully finite point and a positive cell size, the grid origin
\* shifted by (180, 90) is an integer multiple of the cell size, and it is
\* the lower cell boundary of (lngMin + 180, latMin + 90): the origin is
\* aligned in positive space, whichever hemisphere the data lies in.
C4_OriginAligned ==
  (Placed /\ FiniteIndexes # {}) =>
    LET xOffset == gridOffset.xOffset
        yOffset == gridOffset.yOffset
        originX == opts.gridOrigin[1]
        originY == opts.gridOrigin[2]
    IN  /\ IsFinite(xOffset) /\ xOffset.v > 0
        /\ IsFinite(yOffset) /\ yOffset.v > 0
        /\ IsFinite(originX) /\ IsFinite(originY)
        /\ MultipleOf(originX.v + 180 * Resolution, xOffset.v)
        /\ MultipleOf(originY.v + 90 * Resolution, yOffset.v)
        /\ originX.v + 180 * Resolution
             = FloorMultiple(MinOf(FiniteLngs) + 180 * Resolution, xOffset.v)
        /\ originY.v + 90 * Resolution
             = FloorMultiple(MinOf(FiniteLats) + 90 * Resolution, yOffset.v)

\* C4's case: data in the south-western hemisphere only, whose minimum is
\* off the cell boundaries, so that the alignment moves the origin.
C4_Witness ==
  /\ pc = "done"
  /\ FiniteIndexes # {}
  /\ MaxOf(FiniteLngs) < 0
  /\ MaxOf(FiniteLats) < 0
  /\ opts.gridOrigin[2].v < MinOf(FiniteLats)
  /\ opts.gridOrigin[1].v < MinOf(FiniteLngs)

C6_PointsNonNegative ==
  Placed =>
    \A i \in FiniteIndexes :
      /\ Le(Fin(0), Add(getPosition(args.data[i])[1], opts.gridTransformMatrix.tx))
      /\ Le(Fin(0), Add(getPosition(args.data[i])[2], opts.gridTransformMatrix.ty))
      /\ Le(Fin(0), Sub(getPosition(args.data[i])[1], opts.gridOrigin[1]))
      /\ Le(Fin(0), Sub(getPosition(args.data[i])[2], opts.gridOrigin[2]))

\* C6's case: a finite point with negative coordinates beside a point with a
\* non-finite coordinate, the finite one translated to a positive offset.
C6_Witness ==
  /\ pc = "done"
  /\ \E i \in FiniteIndexes :
       /\ Lt(getPosition(args.data[i])[1], Fin(0))
       /\ Lt(getPosition(args.data[i])[2], Fin(0))
       /\ Lt(Fin(0), Add(getPosition(args.data[i])[2], opts.gridTransformMatrix.ty))
  /\ FiniteIndexes # 1..Len(args.data)

\* C7: after _parseData has scanned N points, positions and positions64xyLow
\* have length 2N and weights has length N, every weight is 1.0, and the
\* pair i of positions is the (lng, lat) of point i, non-finite or not.
C7_BufferLengths ==
  pc # "_parseData" =>
    LET N == Len(args.data)
    IN  /\ Len(gridData.positions) = 2 * N
        /\ Len(gridData.positions64xyLow) = 2 * N
        /\ Len(gridData.weights) = N
        /\ \A i \in 1..N :
             /\ gridData.weights[i] = Fin(1)
             /\ gridData.positions[2 * i - 1] = getPosition(args.data[i])[1]
             /\ gridData.positions[2 * i] = getPosition(args.data[i])[2]

\* C7's case: a scanned collection of two points, a finite point after a
\* point with a NaN or infinite coordinate.
C7_Witness ==
  /\ pc = "_getGridOffset"
  /\ Len(args.data) = 2
  /\ ~FiniteAt(1)
  /\ FiniteAt(2)
  /\ Len(gridData.weights) = 2

\* C8: the bounds _parseData returns are the minimum and maximum longitude
\* and latitude over the points with both coordinates finite (the initial
\* +/-Infinity when there is none); a point with a non-finite coordinate
\* contributes nothing, its finite coordinate included.
C8_BoundsOfFinitePoints ==
  pc # "_parseData" =>
    IF FiniteIndexes = {}
    THEN /\ gridData.latMin = Infinity /\ gridData.latMax = NegInfinity
         /\ gridData.lngMin = Infinity /\ gridData.lngMax = NegInfinity
    ELSE /\ gridData.latMin = Fin(MinOf(FiniteLats))
         /\ gridData.latMax = Fin(MaxOf(FiniteLats))
         /\ gridData.lngMin = Fin(MinOf(FiniteLngs))
         /\ gridData.lngMax = Fin(MaxOf(FiniteLngs))

\* C8's case: a finite point and a point with one finite coordinate that lies
\* outside the bounds returned.
C8_Witness ==
  /\ pc = "_getGridOffset"
  /\ FiniteIndexes # {}
  /\ \E i \in 1..Len(args.data) :
       /\ ~FiniteAt(i)
       /\ \/ Lt(getPosition(args.data[i])[1], gridData.lngMin)
          \/ Gt(getPosition(args.data[i])[2], gridData.latMax)

\* C9: with no point of two finite coordinates (or no point at all) the call
\* completes: the bounds are still +Infinity / -Infinity, the engine has
\* been invoked once, and width, height and both components of gridSize are
\* NaN or infinite.
C9_DegenerateGrid ==
  (pc = "done" /\ FiniteIndexes = {}) =>
    /\ gridData.latMin = Infinity /\ gridData.lngMin = Infinity
    /\ gridData.latMax = NegInfinity /\ gridData.lngMax = NegInfinity
    /\ Len(runCalls) = 1
    /\ ~IsFinite(runCalls[1].width) /\ ~IsFinite(runCalls[1].height)
    /\ ~IsFinite(result.gridSize[1]) /\ ~IsFinite(result.gridSize[2])

\* C9's case: a completed call on a collection of two points, none with two
\* finite coordinates.
C9_Witness ==
  /\ pc = "done"
  /\ Len(args.data) = 2
  /\ FiniteIndexes = {}
  /\ result.gridSize[1] = NaN

\* the engine is invoked once, at the call of run, and never again
RunOnce == Len(runCalls) = (IF pc \in {"return", "done"} THEN 1 ELSE 0)

\* the flags pass through and the engine's buffers are returned unchanged
FlagsAndBuffersPassThrough ==
  /\ runCalls[1].useGPU = args.flags.gpuAggregation
  /\ "fp64" \in DOMAIN args.flags => runCalls[1].fp64 = args.flags.fp64
  /\ result.countsBuffer = aggregatedData.countsBuffer
  /\ result.maxCountBuffer = aggregatedData.maxCountBuffer

\* C10, as stated: each call invokes the engine exactly once, with a request
\* whose fields are exactly positions, positions64Low, weights, cellSize,
\* width, height, gridTransformMatrix, useGPU, fp64; useGPU is the caller's
\* gpuAggregation and fp64 the caller's fp64; the engine's countsBuffer and
\* maxCountBuffer are returned unchanged.
C10_RequestAsStated ==
  /\ RunOnce
  /\ pc = "done" =>
       /\ DOMAIN runCalls[1]
            = {"positions", "positions64Low", "weights", "cellSize", "width",
               "height", "gridTransformMatrix", "useGPU", "fp64"}
       /\ FlagsAndBuffersPassThrough

\* C10, amended: the same, the low parts being passed in the field
\* positions64xyLow.
C10_Request ==
  /\ RunOnce
  /\ pc = "done" =>
       /\ DOMAIN runCalls[1]
            = {"positions", "positions64xyLow", "weights", "cellSize", "width",
               "height", "gridTransformMatrix", "useGPU", "fp64"}
       /\ FlagsAndBuffersPassThrough

\* C10's case: a completed call with gpuAggregation false and fp64 true, on
\* a collection of points, the engine having returned its second result.
C10_Witness ==
  /\ pc = "done"
  /\ Len(args.data) > 0
  /\ ~args.flags.gpuAggregation
  /\ "fp64" \in DOMAIN args.flags
  /\ args.flags.fp64
  /\ runCalls[1].fp64
  /\ result.countsBuffer = "counts1"

=============================================================================
